---- MODULE Spec2Model ----
(***************************************************************************)
(* Input capture / buffering pipeline and adaptive render scheduler of     *)
(* prototypes/input-worker.                                                *)
(*                                                                         *)
(*   ib  - one InputBuffer object (input-buffer.mjs)                       *)
(*   ar  - one AdaptiveRenderer object (adaptive-renderer.mjs)             *)
(*   cw  - the input worker thread (its module variables), channel the     *)
(*         messages it posted that the main thread has not yet received    *)
(*   now - the wall clock, Date.now(), in milliseconds                     *)
(*                                                                         *)
(* Timers.  setTimeout(f, d) called at time t adds a pending instance with *)
(* deadline t + d to the object's "pending" table (the host's timer list,  *)
(* not a field of the JavaScript object); clearTimeout(h) removes the      *)
(* instance the handle h names, and does nothing when h has already fired. *)
(* A callback runs in the millisecond of its deadline: the clock does not  *)
(* pass a pending deadline, but any other handler may still run in that    *)
(* same millisecond before the callback does.                              *)
(*                                                                         *)
(* The variables bop, rop and cop are records of the last operation        *)
(* performed on ib, ar and cw (its arguments and what it returned, called  *)
(* or posted); with pushedAll, flushedAll, captured, postedAll,            *)
(* invocations and throws they are not program state.                      *)
(***************************************************************************)
EXTENDS Integers, Sequences, FiniteSets, TLC

VARIABLES now, ib, bop, pushedAll, flushedAll, ar, rop, invocations, throws,
          cw, channel, cop, captured, postedAll

vars == <<now, ib, bop, pushedAll, flushedAll, ar, rop, invocations, throws,
          cw, channel, cop, captured, postedAll>>
bufVars == <<ib, bop, pushedAll, flushedAll>>
rendVars == <<ar, rop, invocations, throws>>
capVars == <<cw, channel, cop, captured, postedAll>>

\* ---------------------------------------------------------------- bounds
MaxTime == 5
MaxRendTime == 4
MaxUnits == 3
MaxPushLen == 2
MaxProc == 1
MaxSkew == 1
MaxItems == 3
MaxThrows == 1
MaxDur == 1
MaxCapTime == 5
MaxChunkLen == 2
MaxValueLen == 2

\* ------------------------------------------------- configuration options
\* (constructor options; the defaults 50 / 100 are scaled down to the clock)
delayThresholdMs == 1
typingModeDelayMs == 2
idleThresholdMs == 2
maxDeferMs == 3

Null == -1

Times == 0..MaxTime

Max(a, b) == IF a >= b THEN a ELSE b

\* The units pushed are numbered in push order: the k-th unit ever pushed has
\* content k, so that a unit lost, repeated or out of place shows in the
\* content.  FreshString(n, k) is the string of the k units after the n-th.
FreshString(n, k) == [i \in 1..k |-> n + i]

\* ------------------------------------------------------------ host timers
RECURSIVE RemoveFirst(_, _)
RemoveFirst(s, h) ==
  IF s = <<>> THEN <<>>
  ELSE IF Head(s) = h THEN Tail(s)
  ELSE <<Head(s)>> \o RemoveFirst(Tail(s), h)

clearTimeout(pending, h) == RemoveFirst(pending, h)

setTimeout(pending, t, delay) == Append(pending, t + delay)

RemoveAt(s, i) == SubSeq(s, 1, i - 1) \o SubSeq(s, i + 1, Len(s))

\* the clock may advance by k without passing a pending deadline
NoDeadlineBefore(pending, k) ==
  k = 0 \/ \A i \in DOMAIN pending: pending[i] >= now + k

\* ------------------------------------------------------------ InputBuffer
ZeroMetrics ==
  [totalInputs |-> 0, delayEvents |-> 0, maxDelay |-> 0,
   avgProcessingTime |-> <<0, 1>>, totalProcessingTime |-> 0]

NewInputBuffer(t) ==
  [buffer |-> <<>>, lastProcessTime |-> t, metrics |-> ZeroMetrics,
   typingMode |-> FALSE, lastInputTime |-> 0, typingModeTimeout |-> Null,
   pending |-> <<>>]

\* the loop of push over the entries made from the units of data
enqueueFront(buffer, entries) == entries \o buffer

enqueue(buffer, entries) == buffer \o entries

\* "Reset typing mode timeout" of push at time t: the pending timers after it
rearmKeepingOld(b, t) == setTimeout(b.pending, t, typingModeDelayMs)

rearm(b, t) ==
  LET cleared == IF b.typingModeTimeout # Null
                 THEN clearTimeout(b.pending, b.typingModeTimeout)
                 ELSE b.pending
  IN setTimeout(cleared, t, typingModeDelayMs)

\* data.split('') of a string: its characters, each a string of one unit
split(data) == [i \in 1..Len(data) |-> <<data[i]>>]

\* push(data, timestamp) executed at time t, after its first line has made
\* the array chars
pushChars(b, chars, timestamp, t) ==
  LET entries == [i \in 1..Len(chars) |->
                    [char |-> chars[i], receivedAt |-> timestamp, queuedAt |-> t]]
  IN [b EXCEPT !.buffer = enqueue(@, entries),
               !.lastInputTime = t,
               !.metrics.totalInputs = @ + Len(chars),
               !.typingMode = TRUE,
               !.typingModeTimeout = t + typingModeDelayMs,
               !.pending = rearm(b, t)]

\* push(data, timestamp) where data is a string: chars = data.split('')
push(b, data, timestamp, t) == pushChars(b, split(data), timestamp, t)

\* push(data, timestamp) where data is not a string (a number, a Buffer,
\* null): chars = [data].  The value is known by the string that join('')
\* makes of it, which may have no, one or several characters.
pushValue(b, data, timestamp, t) == pushChars(b, <<data>>, timestamp, t)

\* Array.prototype.join(''): the strings of the elements one after the other
RECURSIVE join(_)
join(chars) ==
  IF chars = <<>> THEN <<>> ELSE Head(chars) \o join(Tail(chars))

\* pushBatch(inputs): push(input.char, input.timestamp) for each input
RECURSIVE pushBatch(_, _, _)
pushBatch(b, inputs, t) ==
  IF inputs = <<>> THEN b
  ELSE pushBatch(push(b, Head(inputs).char, Head(inputs).timestamp, t),
                 Tail(inputs), t)

\* buffer.map(b => b.char).join('')
peek(b) == join([i \in 1..Len(b.buffer) |-> b.buffer[i].char])

RECURSIVE SumQueueTimes(_)
SumQueueTimes(q) ==
  IF q = <<>> THEN 0
  ELSE (Head(q).queuedAt - Head(q).receivedAt) + SumQueueTimes(Tail(q))

\* Numbers that JavaScript computes by division are kept as fractions
\* <<n, d>> of non-negative integers: <<n, 0>> is Infinity for n > 0 and
\* NaN for n = 0.
\* a / b || 0: NaN and 0 are falsy and give 0, Infinity is truthy
DivOrZero(a, b) == IF a = 0 THEN <<0, 1>> ELSE <<a, b>>

\* the test of flush for a delay event
delayDetectedAnyQueue(b, delay) == delay > delayThresholdMs

delayDetected(b, delay) == delay > delayThresholdMs /\ Len(b.buffer) > 0

\* the average of queuedAt - receivedAt over the queue
avgQueueTimeUnguarded(q) == <<SumQueueTimes(q), Len(q)>>

avgQueueTime(q) ==
  IF Len(q) > 0 THEN <<SumQueueTimes(q), Len(q)>> ELSE <<0, 1>>

\* flush() entered at time t, its second Date.now() read at t + pt;
\* gives the object after the call, the value returned and the
\* onDelayDetected calls made
flush(b, t, pt) ==
  LET delay == t - b.lastProcessTime
      slow == delayDetected(b, delay)
      chars == peek(b)
      m1 == IF slow
            THEN [b.metrics EXCEPT !.delayEvents = @ + 1,
                                   !.maxDelay = Max(@, delay)]
            ELSE b.metrics
      total == m1.totalProcessingTime + pt
      m2 == [m1 EXCEPT !.totalProcessingTime = total,
                       !.avgProcessingTime = DivOrZero(total, m1.totalInputs)]
  IN [obj |-> [b EXCEPT !.buffer = <<>>, !.lastProcessTime = t, !.metrics = m2],
      result |-> [chars |-> chars, delay |-> delay,
                  avgQueueTime |-> avgQueueTime(b.buffer), count |-> Len(chars)],
      callbacks |-> IF slow
                    THEN <<[delay |-> delay, bufferedChars |-> Len(b.buffer),
                            timestamp |-> t]>>
                    ELSE <<>>]

resetMetrics(b) == [b EXCEPT !.metrics = ZeroMetrics]

\* record of an operation: its name, its arguments, the value it returned
\* and the onDelayDetected calls it made
BufOp(op, arg, result, callbacks) ==
  [op |-> op, arg |-> arg, result |-> result, callbacks |-> callbacks]

\* ------------------------------------------------- InputBuffer operations
\* push(data, timestamp) with any string of fresh units
PushWith(timestamp) ==
  \E k \in 0..MaxPushLen:
    LET data == FreshString(Len(pushedAll), k)
    IN /\ Len(pushedAll) + k <= MaxUnits
       /\ ib' = push(ib, data, timestamp, now)
       /\ bop' = BufOp("push", <<data, timestamp>>, <<>>, <<>>)
       /\ pushedAll' = pushedAll \o data
       /\ UNCHANGED <<now, flushedAll, rendVars, capVars>>

\* push(data): timestamp = Date.now()
Push == PushWith(now)

\* push(data) with a value that is not a string, whose string has
\* 0..MaxValueLen fresh units
PushValue ==
  \E k \in 0..MaxValueLen:
    LET data == FreshString(Len(pushedAll), k)
    IN /\ Len(pushedAll) + k <= MaxUnits
       /\ ib.metrics.totalInputs < MaxUnits
       /\ ib' = pushValue(ib, data, now, now)
       /\ bop' = BufOp("push", <<data, now>>, <<>>, <<>>)
       /\ pushedAll' = pushedAll \o data
       /\ UNCHANGED <<now, flushedAll, rendVars, capVars>>

\* push(data, timestamp) with a timestamp of the caller's
PushAt ==
  \E timestamp \in {t \in Times: t >= now - MaxSkew /\ t <= now + MaxSkew}:
    PushWith(timestamp)

\* a batch as the capture worker builds it: one-unit strings stamped with
\* arrival times in arrival order, none in the future
Batches ==
  UNION {{[i \in 1..k |-> [char |-> FreshString(Len(pushedAll) + i - 1, 1),
                           timestamp |-> ts[i]]]
            : ts \in {f \in [1..k -> {t \in Times: t <= now /\ t >= now - MaxSkew}]:
                       \A i \in 1..(k - 1): f[i] <= f[i + 1]}}
           : k \in 1..MaxPushLen}

RECURSIVE BatchChars(_)
BatchChars(inputs) ==
  IF inputs = <<>> THEN <<>>
  ELSE Head(inputs).char \o BatchChars(Tail(inputs))

PushBatch ==
  \E inputs \in Batches:
    /\ Len(pushedAll) + Len(inputs) <= MaxUnits
    /\ ib' = pushBatch(ib, inputs, now)
    /\ bop' = BufOp("pushBatch", inputs, <<>>, <<>>)
    /\ pushedAll' = pushedAll \o BatchChars(inputs)
    /\ UNCHANGED <<now, flushedAll, rendVars, capVars>>

Flush ==
  \E pt \in 0..MaxProc:
    /\ now + pt <= MaxTime
    /\ NoDeadlineBefore(ib.pending, pt)
    /\ LET f == flush(ib, now, pt)
       IN /\ ib' = f.obj
          /\ bop' = BufOp("flush", <<now, pt>>, f.result, f.callbacks)
          /\ flushedAll' = flushedAll \o f.result.chars
    /\ now' = now + pt
    /\ UNCHANGED <<pushedAll, rendVars, capVars>>

Peek ==
  /\ bop' = BufOp("peek", <<>>, peek(ib), <<>>)
  /\ UNCHANGED <<now, ib, pushedAll, flushedAll, rendVars, capVars>>

ResetMetrics ==
  /\ ib' = resetMetrics(ib)
  /\ bop' = BufOp("resetMetrics", <<>>, <<>>, <<>>)
  /\ UNCHANGED <<now, pushedAll, flushedAll, rendVars, capVars>>

\* the callback of push's setTimeout: this.typingMode = false
TypingModeTimer ==
  \E i \in DOMAIN ib.pending:
    /\ ib.pending[i] <= now
    /\ ib' = [ib EXCEPT !.typingMode = FALSE, !.pending = RemoveAt(@, i)]
    /\ bop' = BufOp("typingModeTimer", <<>>, <<>>, <<>>)
    /\ UNCHANGED <<now, pushedAll, flushedAll, rendVars, capVars>>

BufTick ==
  /\ now < MaxTime
  /\ NoDeadlineBefore(ib.pending, 1)
  /\ now' = now + 1
  /\ bop' = BufOp("tick", <<>>, <<>>, <<>>)
  /\ UNCHANGED <<ib, pushedAll, flushedAll, rendVars, capVars>>

\* ------------------------------------------------------- AdaptiveRenderer
\* Work items (renderFn) are numbered in request order; ar.requested is the
\* number requested so far and invocations[id] counts the calls of item id.
NewAdaptiveRenderer ==
  [lastInputTime |-> 0, lastRenderTime |-> 0, deferredRender |-> Null,
   renderQueue |-> <<>>, isTyping |-> FALSE, typingTimeout |-> Null,
   metrics |-> [totalRenders |-> 0, deferredRenders |-> 0,
                immediateRenders |-> 0, avgRenderTime |-> <<0, 1>>,
                maxRenderTime |-> 0],
   pendingTyping |-> <<>>, pendingDeferred |-> <<>>, requested |-> 0]

Priorities == {"high", "normal", "low"}

priorityOrder == [high |-> 0, normal |-> 1, low |-> 2]

RECURSIVE GCD(_, _)
GCD(a, b) == IF b = 0 THEN a ELSE GCD(b, a % b)

Reduce(f) ==
  LET g == GCD(f[1], f[2]) IN IF g = 0 THEN f ELSE <<f[1] \div g, f[2] \div g>>

\* onInput() at time t
onInputKeepingOld(r, t) ==
  [r EXCEPT !.lastInputTime = t,
            !.isTyping = TRUE,
            !.typingTimeout = t + idleThresholdMs,
            !.pendingTyping = setTimeout(@, t, idleThresholdMs)]

onInput(r, t) ==
  LET cleared == IF r.typingTimeout # Null
                 THEN clearTimeout(r.pendingTyping, r.typingTimeout)
                 ELSE r.pendingTyping
  IN [r EXCEPT !.lastInputTime = t,
               !.isTyping = TRUE,
               !.typingTimeout = t + idleThresholdMs,
               !.pendingTyping = setTimeout(cleared, t, idleThresholdMs)]

\* deferRender(renderFn, priority) at time t; id names renderFn
deferRender(r, id, priority, t) ==
  LET armed == r.deferredRender = Null
  IN [r EXCEPT !.renderQueue = Append(@, [renderFn |-> id, priority |-> priority,
                                          queuedAt |-> t]),
               !.metrics.deferredRenders = @ + 1,
               !.deferredRender = IF armed THEN t + maxDeferMs ELSE @,
               !.pendingDeferred = IF armed THEN setTimeout(@, t, maxDeferMs)
                                   ELSE @]

\* executeRender(renderFn) whose call of renderFn ends (returns or throws) at
\* time end after dur milliseconds: the finally block
executeRender(r, end, dur) ==
  LET n == r.metrics.totalRenders + 1
      avg == r.metrics.avgRenderTime
  IN [r EXCEPT !.lastRenderTime = end,
               !.metrics.totalRenders = n,
               !.metrics.immediateRenders = @ + 1,
               !.metrics.maxRenderTime = Max(@, dur),
               !.metrics.avgRenderTime =
                   Reduce(<<avg[1] * (n - 1) + dur * avg[2], avg[2] * n>>)]

\* try { renderFn() } finally { ... } of executeRender: the finally block
\* runs whether renderFn returned or raised (threw), and the error goes on
\* to the caller
tryWithoutFinally(r, end, dur, threw) ==
  IF threw THEN r ELSE executeRender(r, end, dur)

tryFinally(r, end, dur, threw) == executeRender(r, end, dur)

\* the comparator of flushDeferred's sort
compareQueuedAt(a, b) == a.queuedAt - b.queuedAt

compare(a, b) ==
  LET priorityDiff == priorityOrder[a.priority] - priorityOrder[b.priority]
  IN IF priorityDiff # 0 THEN priorityDiff ELSE a.queuedAt - b.queuedAt

\* Array.prototype.sort is stable: x goes after every element not above it
RECURSIVE InsertSorted(_, _)
InsertSorted(s, x) ==
  IF s = <<>> THEN <<x>>
  ELSE IF compare(Head(s), x) <= 0 THEN <<Head(s)>> \o InsertSorted(Tail(s), x)
  ELSE <<x>> \o s

RECURSIVE SortQueue(_)
SortQueue(q) ==
  IF q = <<>> THEN <<>>
  ELSE InsertSorted(SortQueue(SubSeq(q, 1, Len(q) - 1)), q[Len(q)])

SumTo(durs, n) ==
  LET RECURSIVE S(_)
      S(i) == IF i = 0 THEN 0 ELSE durs[i] + S(i - 1)
  IN S(n)

\* flushDeferred with the queue cleared on every exit
flushDeferredDropping(r, t, n, durs, threw) ==
  LET r1 == IF r.deferredRender # Null
            THEN [r EXCEPT !.pendingDeferred = clearTimeout(@, r.deferredRender),
                           !.deferredRender = Null]
            ELSE r
      sorted == SortQueue(r.renderQueue)
      RECURSIVE Run(_, _)
      Run(x, i) ==
        IF i > n THEN x
        ELSE Run(tryFinally(x, t + SumTo(durs, i), durs[i], threw /\ i = n),
                 i + 1)
      r2 == Run([r1 EXCEPT !.renderQueue = sorted], 1)
  IN IF r.renderQueue = <<>> THEN r1
     ELSE [r2 EXCEPT !.renderQueue = <<>>]

\* flushDeferred whose calls count in totalRenders but not in
\* immediateRenders
flushDeferredNotImmediate(r, t, n, durs, threw) ==
  LET r1 == IF r.deferredRender # Null
            THEN [r EXCEPT !.pendingDeferred = clearTimeout(@, r.deferredRender),
                           !.deferredRender = Null]
            ELSE r
      sorted == SortQueue(r.renderQueue)
      RECURSIVE Run(_, _)
      Run(x, i) ==
        IF i > n THEN x
        ELSE Run(tryFinally(x, t + SumTo(durs, i), durs[i], threw /\ i = n),
                 i + 1)
      r2 == [Run([r1 EXCEPT !.renderQueue = sorted], 1)
               EXCEPT !.metrics.immediateRenders = r.metrics.immediateRenders]
  IN IF r.renderQueue = <<>> THEN r1
     ELSE IF threw THEN r2
     ELSE [r2 EXCEPT !.renderQueue = <<>>]

\* flushDeferred() at time t; when the queue is not empty the loop calls the
\* first n entries of the sorted queue, the n-th raising iff threw
flushDeferred(r, t, n, durs, threw) ==
  LET r1 == IF r.deferredRender # Null
            THEN [r EXCEPT !.pendingDeferred = clearTimeout(@, r.deferredRender),
                           !.deferredRender = Null]
            ELSE r
      sorted == SortQueue(r.renderQueue)
      RECURSIVE Run(_, _)
      Run(x, i) ==
        IF i > n THEN x
        ELSE Run(tryFinally(x, t + SumTo(durs, i), durs[i], threw /\ i = n),
                 i + 1)
      r2 == Run([r1 EXCEPT !.renderQueue = sorted], 1)
  IN IF r.renderQueue = <<>> THEN r1
     ELSE IF threw THEN r2
     ELSE [r2 EXCEPT !.renderQueue = <<>>]

\* which branch requestRender(renderFn, {priority}) takes at time t
requestRenderNoHigh(r, priority, t) ==
  LET timeSinceInput == t - r.lastInputTime
  IN IF r.isTyping /\ timeSinceInput < idleThresholdMs THEN "deferRender"
     ELSE "executeRender"

requestRenderSinceRender(r, priority, t) ==
  LET timeSinceRender == t - r.lastRenderTime
  IN IF priority = "high" THEN "executeRender"
     ELSE IF r.isTyping /\ timeSinceRender < idleThresholdMs THEN "deferRender"
     ELSE "executeRender"

requestRender(r, priority, t) ==
  LET timeSinceInput == t - r.lastInputTime
  IN IF priority = "high" THEN "executeRender"
     ELSE IF r.isTyping /\ timeSinceInput < idleThresholdMs THEN "deferRender"
     ELSE "executeRender"

\* record of an operation: its name, the priority and work item it was
\* given, the work items it called, in order, whether it raised, and for a
\* flush the queue it found
RendOp(op, priority, id, ran, threw, queue) ==
  [op |-> op, priority |-> priority, id |-> id, ran |-> ran, threw |-> threw,
   queue |-> queue]

Ids(q) == [i \in 1..Len(q) |-> q[i].renderFn]

Bump(inv, ran) ==
  [id \in DOMAIN inv |-> inv[id] + Cardinality({i \in DOMAIN ran: ran[i] = id})]

AllPending == ar.pendingTyping \o ar.pendingDeferred

\* --------------------------------------------- AdaptiveRenderer operations
OnInput ==
  /\ ar' = onInput(ar, now)
  /\ rop' = RendOp("onInput", "none", 0, <<>>, FALSE, <<>>)
  /\ UNCHANGED <<now, invocations, throws, bufVars, capVars>>

\* a call of renderFn through executeRender, taking dur and raising iff threw
Execute(op, priority, id, dur, threw) ==
  /\ now + dur <= MaxRendTime
  /\ NoDeadlineBefore(AllPending, dur)
  /\ threw => throws < MaxThrows
  /\ ar' = [tryFinally(ar, now + dur, dur, threw) EXCEPT !.requested = id]
  /\ rop' = RendOp(op, priority, id, <<id>>, threw, <<>>)
  /\ invocations' = Bump(invocations, <<id>>)
  /\ throws' = IF threw THEN throws + 1 ELSE throws
  /\ now' = now + dur

Defer(op, priority, id) ==
  /\ ar' = [deferRender(ar, id, priority, now) EXCEPT !.requested = id]
  /\ rop' = RendOp(op, priority, id, <<>>, FALSE, <<>>)
  /\ UNCHANGED <<now, invocations, throws>>

RequestRender ==
  \E priority \in Priorities, dur \in 0..MaxDur, threw \in BOOLEAN:
    LET id == ar.requested + 1
    IN /\ id <= MaxItems
       /\ IF requestRender(ar, priority, now) = "deferRender"
          THEN /\ dur = 0 /\ ~threw
               /\ Defer("requestRender", priority, id)
          ELSE Execute("requestRender", priority, id, dur, threw)
       /\ UNCHANGED <<bufVars, capVars>>

\* deferRender called directly (it is a public method of the class) with
\* priority high, the one priority requestRender never queues
DeferRender ==
  LET id == ar.requested + 1
  IN /\ id <= MaxItems
     /\ Defer("deferRender", "high", id)
     /\ UNCHANGED <<bufVars, capVars>>

\* flushDeferred() on the object r (ar, or ar after the statements of the
\* timer callback that come before the call); every work item called in one
\* pass takes the same time dur
Flushing(op, r) ==
  \E n \in 0..Len(r.renderQueue), threw \in BOOLEAN:
  \E dur \in 0..MaxDur:
    LET durs == [i \in 1..n |-> dur]
        total == SumTo(durs, n)
        after == flushDeferred(r, now, n, durs, threw)
        ran == SubSeq(Ids(SortQueue(r.renderQueue)), 1, n)
    IN /\ IF threw THEN n >= 1 /\ throws < MaxThrows
                   ELSE n = Len(r.renderQueue)
       /\ now + total <= MaxRendTime
       /\ NoDeadlineBefore(after.pendingTyping \o after.pendingDeferred, total)
       /\ ar' = after
       /\ rop' = RendOp(op, "none", 0, ran, threw, r.renderQueue)
       /\ invocations' = Bump(invocations, ran)
       /\ throws' = IF threw THEN throws + 1 ELSE throws
       /\ now' = now + total
       /\ UNCHANGED <<bufVars, capVars>>

FlushDeferred == Flushing("flushDeferred", ar)

\* the callback of onInput's setTimeout
TypingTimer ==
  \E i \in DOMAIN ar.pendingTyping:
    /\ ar.pendingTyping[i] <= now
    /\ Flushing("typingTimer",
                [ar EXCEPT !.isTyping = FALSE, !.pendingTyping = RemoveAt(@, i)])

\* the callback of deferRender's setTimeout
DeferredTimer ==
  \E i \in DOMAIN ar.pendingDeferred:
    /\ ar.pendingDeferred[i] <= now
    /\ Flushing("deferredTimer", [ar EXCEPT !.pendingDeferred = RemoveAt(@, i)])

RendTick ==
  /\ now < MaxRendTime
  /\ NoDeadlineBefore(AllPending, 1)
  /\ now' = now + 1
  /\ rop' = RendOp("tick", "none", 0, <<>>, FALSE, <<>>)
  /\ UNCHANGED <<ar, invocations, throws, bufVars, capVars>>

\* ------------------------------------------------------------ input worker
\* The worker thread that reads stdin (the capture source).  cw holds its
\* module variables lastInputTime, inputBuffer and flushTimeout, its pending
\* flush timers, whether the thread runs and the state of stdin.  channel
\* holds the messages posted to parentPort and not yet received by the main
\* thread.  The units read are numbered in read order; captured is the
\* sequence of all units read, postedAll the content of all batch messages
\* posted so far, cop the last handler run and the messages it posted.

\* the delay of setTimeout(flushBuffer, 5), scaled down to the clock
coalesceMs == 1

\* scaled down to the clock, above the coalescing delay as in the source
DELAY_WARNING_THRESHOLD_MS == 3

\* Date.now() is never 0, so the 0 of "let lastInputTime = 0" is Null here
NewWorker ==
  [lastInputTime |-> Null, inputBuffer |-> <<>>, flushTimeout |-> Null,
   pending |-> <<>>, state |-> "running", stdin |-> "open"]

Msg(type, inputs, batchTimestamp, gap) ==
  [type |-> type, inputs |-> inputs, batchTimestamp |-> batchTimestamp,
   gap |-> gap]

\* after "inputBuffer = []; flushTimeout = null" of flushBuffer
clearedKeepingBatch(w) == [w EXCEPT !.flushTimeout = Null]

cleared(w) == [w EXCEPT !.inputBuffer = <<>>, !.flushTimeout = Null]

\* flushBuffer() at time t: the worker after it and the messages it posted
flushBuffer(w, t) ==
  IF Len(w.inputBuffer) = 0
  THEN [obj |-> w, posted |-> <<>>]
  ELSE [obj |-> cleared(w),
        posted |-> <<Msg("input_batch", w.inputBuffer, t, 0)>>]

scheduleFlushAlways(w, t) ==
  [w EXCEPT !.flushTimeout = t + coalesceMs,
            !.pending = setTimeout(@, t, coalesceMs)]

scheduleFlush(w, t) ==
  IF w.flushTimeout = Null
  THEN [w EXCEPT !.flushTimeout = t + coalesceMs,
                 !.pending = setTimeout(@, t, coalesceMs)]
  ELSE w

\* the 'data' handler of stdin run at time t with a chunk of units
onData(w, chunk, t) ==
  LET gap == t - w.lastInputTime
      warn == /\ w.lastInputTime # Null
              /\ gap > DELAY_WARNING_THRESHOLD_MS
              /\ Len(w.inputBuffer) > 0
      entries == [i \in 1..Len(chunk) |->
                    [char |-> <<chunk[i]>>, timestamp |-> t,
                     sequence |-> Len(chunk) > 1]]
      w1 == [w EXCEPT !.inputBuffer = @ \o entries, !.lastInputTime = t]
  IN [obj |-> scheduleFlush(w1, t),
      posted |-> IF warn THEN <<Msg("delay_warning", <<>>, 0, gap)>> ELSE <<>>]

\* the 'message' handler of parentPort for a shutdown message:
\* flushBuffer(), stdin.pause(), process.exit(0), which ends the thread and
\* its timers
onShutdownNoFlush(w, t) ==
  [obj |-> [w EXCEPT !.state = "exited", !.stdin = "paused", !.pending = <<>>],
   posted |-> <<>>]

onShutdown(w, t) ==
  LET f == flushBuffer(w, t)
  IN [obj |-> [f.obj EXCEPT !.state = "exited", !.stdin = "paused",
                            !.pending = <<>>],
      posted |-> f.posted]

\* the content of the batch messages of a sequence of messages
RECURSIVE MsgChars(_)
MsgChars(msgs) ==
  IF msgs = <<>> THEN <<>>
  ELSE (IF Head(msgs).type = "input_batch" THEN BatchChars(Head(msgs).inputs)
        ELSE <<>>) \o MsgChars(Tail(msgs))

CapOp(op, chunk, posted) == [op |-> op, chunk |-> chunk, posted |-> posted]

\* a handler of the worker has run: r.obj is the worker after it, r.posted
\* the messages it handed to parentPort.postMessage
Handled(op, chunk, r) ==
  /\ cw' = r.obj
  /\ channel' = channel \o r.posted
  /\ postedAll' = postedAll \o MsgChars(r.posted)
  /\ captured' = captured \o chunk
  /\ cop' = CapOp(op, chunk, r.posted)

\* stdin delivers a chunk of zero or more units
Data ==
  \E k \in 0..MaxChunkLen:
    LET chunk == FreshString(Len(captured), k)
    IN /\ cw.state = "running"
       /\ cw.stdin = "open"
       /\ Len(captured) + k <= MaxUnits
       /\ Handled("data", chunk, onData(cw, chunk, now))
       /\ UNCHANGED <<now, bufVars, rendVars>>

\* the callback of scheduleFlush's setTimeout
FlushTimer ==
  \E i \in DOMAIN cw.pending:
    /\ cw.state = "running"
    /\ cw.pending[i] <= now
    /\ Handled("flushTimer", <<>>,
               flushBuffer([cw EXCEPT !.pending = RemoveAt(@, i)], now))
    /\ UNCHANGED <<now, bufVars, rendVars>>

\* the main thread sends {type: 'shutdown'}
Shutdown ==
  /\ cw.state = "running"
  /\ Handled("shutdown", <<>>, onShutdown(cw, now))
  /\ UNCHANGED <<now, bufVars, rendVars>>

\* stdin emits 'error': the module registers no 'error' listener, so the
\* event is thrown as an uncaught exception and ends the thread
StdinError ==
  /\ cw.state = "running"
  /\ cw.stdin = "open"
  /\ Handled("stdinError", <<>>,
             [obj |-> [cw EXCEPT !.state = "crashed", !.stdin = "error",
                                 !.pending = <<>>],
              posted |-> <<>>])
  /\ UNCHANGED <<now, bufVars, rendVars>>

\* stdin emits 'end' / 'close': the module registers no listener for them,
\* the thread goes on with its timers and its message handler
StdinEnd ==
  /\ cw.state = "running"
  /\ cw.stdin = "open"
  /\ Handled("stdinEnd", <<>>,
             [obj |-> [cw EXCEPT !.stdin = "ended"], posted |-> <<>>])
  /\ UNCHANGED <<now, bufVars, rendVars>>

\* the main thread receives the oldest message in flight and hands a batch
\* to the input buffer with pushBatch
Deliver ==
  /\ channel # <<>>
  /\ channel' = Tail(channel)
  /\ LET msg == Head(channel)
     IN IF msg.type = "input_batch"
        THEN /\ ib' = pushBatch(ib, msg.inputs, now)
             /\ bop' = BufOp("pushBatch", msg.inputs, <<>>, <<>>)
             /\ pushedAll' = pushedAll \o BatchChars(msg.inputs)
        ELSE UNCHANGED <<ib, bop, pushedAll>>
  /\ UNCHANGED <<now, flushedAll, cw, cop, captured, postedAll, rendVars>>

CapTick ==
  /\ now < MaxCapTime
  /\ NoDeadlineBefore(cw.pending, 1)
  /\ NoDeadlineBefore(ib.pending, 1)
  /\ now' = now + 1
  /\ cop' = CapOp("tick", <<>>, <<>>)
  /\ UNCHANGED <<cw, channel, captured, postedAll, bufVars, rendVars>>

Init ==
  /\ now = 0
  /\ ib = NewInputBuffer(0)
  /\ bop = BufOp("new", <<>>, <<>>, <<>>)
  /\ pushedAll = <<>>
  /\ flushedAll = <<>>
  /\ ar = NewAdaptiveRenderer
  /\ rop = RendOp("new", "none", 0, <<>>, FALSE, <<>>)
  /\ invocations = [id \in 1..MaxItems |-> 0]
  /\ throws = 0
  /\ cw = NewWorker
  /\ channel = <<Msg("ready", <<>>, 0, 0)>>
  /\ cop = CapOp("new", <<>>, <<>>)
  /\ captured = <<>>
  /\ postedAll = <<>>

NextBuffer ==
  \/ Push
  \/ PushBatch
  \/ Flush
  \/ Peek
  \/ ResetMetrics
  \/ TypingModeTimer
  \/ BufTick

SpecBuffer == Init /\ [][NextBuffer]_vars

\* the buffer used as a library: push is also called with a timestamp the
\* caller chose
NextBufferStamped ==
  \/ Push
  \/ PushAt
  \/ PushBatch
  \/ Flush
  \/ TypingModeTimer
  \/ BufTick

SpecBufferStamped == Init /\ [][NextBufferStamped]_vars

\* the buffer given strings and values that are not strings, its metrics
\* never reset
NextBufferValues ==
  \/ Push
  \/ PushValue
  \/ Flush
  \/ Peek
  \/ TypingModeTimer
  \/ BufTick

SpecBufferValues == Init /\ [][NextBufferValues]_vars

NextRenderer ==
  \/ OnInput
  \/ RequestRender
  \/ DeferRender
  \/ FlushDeferred
  \/ TypingTimer
  \/ DeferredTimer
  \/ RendTick

SpecRenderer == Init /\ [][NextRenderer]_vars

\* the scheduler driven by onInput and requestRender alone, its deferred
\* queue flushed by the timers only
NextRendererTimers ==
  \/ OnInput
  \/ RequestRender
  \/ TypingTimer
  \/ DeferredTimer
  \/ RendTick

SpecRendererTimers == Init /\ [][NextRendererTimers]_vars

\* the worker thread feeding the input buffer of the main thread
NextCapture ==
  \/ Data
  \/ FlushTimer
  \/ Shutdown
  \/ StdinError
  \/ StdinEnd
  \/ Deliver
  \/ TypingModeTimer
  \/ CapTick

SpecCapture == Init /\ [][NextCapture]_vars

\* ---------------------------------------------------------------- pipeline
\* The three components wired as the data flows: the worker posts batches,
\* the main thread hands each batch it receives to the input buffer and runs
\* the demo's processInput, which drives the renderer.  Work that takes time
\* on the main thread can make a timer callback run after its deadline.

\* processInput() of the demo at time t, after the input was pushed on b; id
\* names the work item it would request.  The input has no Ctrl+B, so the
\* busy wait is not taken.
processInput(b, r, t, id) ==
  LET r1 == onInput(r, t)
      f == flush(b, t, 0)
      defers == requestRender(r1, "normal", t) = "deferRender"
  IN IF f.result.count = 0
     THEN [ib |-> f.obj, ar |-> r1, flushed |-> f, requested |-> FALSE,
           ran |-> <<>>]
     ELSE [ib |-> f.obj,
           ar |-> [(IF defers THEN deferRender(r1, id, "normal", t)
                    ELSE tryFinally(r1, t, 0, FALSE)) EXCEPT !.requested = id],
           flushed |-> f, requested |-> TRUE,
           ran |-> IF defers THEN <<>> ELSE <<id>>]

\* the main thread receives the oldest message in flight; a batch goes to
\* pushBatch and then processInput runs
Receive ==
  /\ channel # <<>>
  /\ channel' = Tail(channel)
  /\ LET msg == Head(channel)
         id == ar.requested + 1
         p == processInput(pushBatch(ib, msg.inputs, now), ar, now, id)
     IN IF msg.type = "input_batch"
        THEN /\ p.requested => id <= MaxItems
             /\ ib' = p.ib
             /\ bop' = BufOp("flush", <<now, 0>>, p.flushed.result,
                             p.flushed.callbacks)
             /\ pushedAll' = pushedAll \o BatchChars(msg.inputs)
             /\ flushedAll' = flushedAll \o p.flushed.result.chars
             /\ ar' = p.ar
             /\ rop' = RendOp(IF p.requested THEN "requestRender" ELSE "onInput",
                              IF p.requested THEN "normal" ELSE "none",
                              IF p.requested THEN id ELSE 0, p.ran, FALSE, <<>>)
             /\ invocations' = Bump(invocations, p.ran)
        ELSE UNCHANGED <<ib, bop, pushedAll, flushedAll, ar, rop, invocations>>
  /\ UNCHANGED <<now, throws, cw, cop, captured, postedAll>>

PipelineTick ==
  /\ now < MaxRendTime
  /\ NoDeadlineBefore(cw.pending, 1)
  /\ NoDeadlineBefore(ib.pending, 1)
  /\ NoDeadlineBefore(AllPending, 1)
  /\ now' = now + 1
  /\ cop' = CapOp("tick", <<>>, <<>>)
  /\ UNCHANGED <<cw, channel, captured, postedAll, bufVars, rendVars>>

NextPipeline ==
  \/ Data
  \/ FlushTimer
  \/ Shutdown
  \/ Receive
  \/ TypingModeTimer
  \/ TypingTimer
  \/ DeferredTimer
  \/ PipelineTick

SpecPipeline == Init /\ [][NextPipeline]_vars

\* ========================================================== InputBuffer
IsFlush == bop.op = "flush"

\* C1: the content returned by the flush() calls so far, followed by the
\* content still queued, is the sequence of all units pushed, in push order,
\* with nothing lost, repeated or moved; a peek() returns the queued content
\* and leaves that so.
C1_FlushOrder ==
  /\ flushedAll \o peek(ib) = pushedAll
  /\ bop.op = "peek" => flushedAll \o bop.result = pushedAll

\* units pushed by several calls, some of them returned by a flush, the
\* rest still queued and seen by a peek
C1_Witness ==
  /\ bop.op = "peek"
  /\ Len(flushedAll) >= 1
  /\ Len(bop.result) >= 2
  /\ ib.buffer[1].queuedAt < ib.buffer[2].queuedAt

\* C7: isTyping() is true right after every push; while it is true no more
\* than typingModeDelayMs has passed since the last push; it is false, after
\* a push, only once typingModeDelayMs has passed since the last push; and
\* the timer that turns it off runs typingModeDelayMs after the last push.
C7_TypingMode ==
  /\ bop.op \in {"push", "pushBatch"} => ib.typingMode
  /\ ib.typingMode => now <= ib.lastInputTime + typingModeDelayMs
  /\ (~ib.typingMode /\ ib.typingModeTimeout # Null)
        => now >= ib.lastInputTime + typingModeDelayMs
  /\ bop.op = "typingModeTimer"
        => ~ib.typingMode /\ now = ib.lastInputTime + typingModeDelayMs

\* two pushes less than typingModeDelayMs apart, and typing mode going off
\* typingModeDelayMs after the second
C7_Witness ==
  /\ bop.op = "typingModeTimer"
  /\ Len(ib.buffer) = 2
  /\ ib.buffer[2].queuedAt > ib.buffer[1].queuedAt
  /\ ib.buffer[2].queuedAt < ib.buffer[1].queuedAt + typingModeDelayMs
  /\ now = ib.buffer[2].queuedAt + typingModeDelayMs
  /\ ~ib.typingMode

\* C8: a flush() with delay above delayThresholdMs on a non-empty queue adds
\* one to delayEvents, makes maxDelay the larger of its old value and the
\* delay, and calls onDelayDetected once; any other flush() leaves both
\* alone and does not call it.
C8_DelayAccounting ==
  [][bop'.op = "flush" =>
       LET delay == now - ib.lastProcessTime
           m == ib.metrics
           m2 == ib'.metrics
       IN IF delay > delayThresholdMs /\ Len(ib.buffer) > 0
          THEN /\ m2.delayEvents = m.delayEvents + 1
               /\ m2.maxDelay = Max(m.maxDelay, delay)
               /\ Len(bop'.callbacks) = 1
               /\ bop'.callbacks[1].delay = delay
          ELSE /\ m2.delayEvents = m.delayEvents
               /\ m2.maxDelay = m.maxDelay
               /\ bop'.callbacks = <<>>]_vars

\* a second delay event whose delay is below the maximum seen before
C8_Witness ==
  /\ IsFlush
  /\ Len(bop.callbacks) = 1
  /\ ib.metrics.delayEvents = 2
  /\ ib.metrics.maxDelay > bop.result.delay

\* C9: flush() on an empty queue returns empty content, count 0 and
\* avgQueueTime 0 (not NaN), reports the time since the previous flush as
\* delay and makes now the time of the last flush.
C9_EmptyFlush ==
  [][(bop'.op = "flush" /\ ib.buffer = <<>>) =>
       /\ bop'.result.chars = <<>>
       /\ bop'.result.count = 0
       /\ bop'.result.avgQueueTime = <<0, 1>>
       /\ bop'.result.delay = now - ib.lastProcessTime
       /\ ib'.lastProcessTime = now]_vars

\* an empty flush long after an earlier flush: its delay is above the
\* threshold, measured from that flush and not from construction, and it
\* raised no delay event
C9_Witness ==
  /\ IsFlush
  /\ bop.result.count = 0
  /\ bop.result.delay > delayThresholdMs
  /\ bop.arg[1] - bop.result.delay > 0
  /\ ib.metrics.delayEvents = 0
  /\ ib.lastProcessTime = bop.arg[1]

\* C10: units pushed with the default timestamp on a new buffer and flushed
\* d later, nothing in between: flush() returns them, their number as count,
\* delay = d and avgQueueTime = d.
C10_QueueTime ==
  [][(/\ bop'.op = "flush"
      /\ ib.buffer # <<>>
      /\ ib.metrics.totalInputs = Len(ib.buffer)
      /\ \A i \in DOMAIN ib.buffer:
           /\ ib.buffer[i].queuedAt = ib.lastProcessTime
           /\ ib.buffer[i].receivedAt = ib.buffer[i].queuedAt)
     => LET d == now - ib.lastProcessTime
            r == bop'.result
        IN /\ r.chars = peek(ib)
           /\ r.count = Len(ib.buffer)
           /\ r.delay = d
           /\ r.avgQueueTime[1] = d * r.avgQueueTime[2]]_vars

\* ====================================================== AdaptiveRenderer
IsFlushDeferred == rop.op \in {"flushDeferred", "typingTimer", "deferredTimer"}

NormalOrLow == {"normal", "low"}

QueueIds(q) == {q[i].renderFn : i \in DOMAIN q}

Entry(q, id) == CHOOSE e \in {q[i] : i \in DOMAIN q}: e.renderFn = id

\* a comes before b in a flush of q: higher priority, or the same priority
\* and queued earlier, or the same priority and time and earlier in q
Position(q, id) == CHOOSE i \in DOMAIN q: q[i].renderFn = id

Before(q, a, b) ==
  LET ea == Entry(q, a)
      eb == Entry(q, b)
  IN \/ priorityOrder[ea.priority] < priorityOrder[eb.priority]
     \/ /\ ea.priority = eb.priority
        /\ \/ ea.queuedAt < eb.queuedAt
           \/ ea.queuedAt = eb.queuedAt /\ Position(q, a) < Position(q, b)

\* ran lists distinct entries of q in flush order, and every entry of q it
\* leaves out comes after all those it lists
InFlushOrder(q, ran) ==
  /\ \A i \in DOMAIN ran: ran[i] \in QueueIds(q)
  /\ \A i, j \in DOMAIN ran: i < j => Before(q, ran[i], ran[j])
  /\ \A id \in QueueIds(q):
       (\A i \in DOMAIN ran: ran[i] # id)
          => \A i \in DOMAIN ran: Before(q, ran[i], id)

\* C2: no work item is called more than once, and a flushDeferred() right
\* after a flushDeferred() calls nothing.
C2_AtMostOnce ==
  [][/\ \A id \in DOMAIN invocations: invocations'[id] <= 1
     /\ (rop.op = "flushDeferred" /\ rop'.op = "flushDeferred")
           => rop'.ran = <<>>]_vars

\* C3: requestRender with priority high calls the work item before it
\* returns, whatever the state; it queues nothing and does not count a
\* deferred render.
C3_HighImmediate ==
  [][(rop'.op = "requestRender" /\ rop'.priority = "high") =>
       /\ rop'.ran = <<rop'.id>>
       /\ invocations'[rop'.id] = invocations[rop'.id] + 1
       /\ ar'.renderQueue = ar.renderQueue
       /\ ar'.metrics.deferredRenders = ar.metrics.deferredRenders]_vars

\* a high priority request served while typing, with work deferred and the
\* max-defer timer armed
C3_Witness ==
  /\ rop.op = "requestRender"
  /\ rop.priority = "high"
  /\ rop.ran = <<rop.id>>
  /\ ar.isTyping
  /\ ar.renderQueue # <<>>
  /\ ar.deferredRender # Null
  /\ ar.pendingDeferred # <<>>

Deferred(r, r2, op) ==
  /\ op.ran = <<>>
  /\ Len(r2.renderQueue) = Len(r.renderQueue) + 1
  /\ SubSeq(r2.renderQueue, 1, Len(r.renderQueue)) = r.renderQueue
  /\ r2.renderQueue[Len(r2.renderQueue)].renderFn = op.id
  /\ r2.metrics.deferredRenders = r.metrics.deferredRenders + 1

\* C4 as stated: while isTyping is true, requestRender with priority normal
\* or low does not call the work item; it appends one entry to the deferred
\* queue and adds one to deferredRenders.
C4_TypingDefers ==
  [][(rop'.op = "requestRender" /\ rop'.priority \in NormalOrLow /\ ar.isTyping)
       => Deferred(ar, ar', rop')]_vars

\* C4 amended: while isTyping is true and less than idleThresholdMs has
\* passed since the last onInput(), requestRender with priority normal or low
\* does not call the work item, appends one entry to the deferred queue and
\* adds one to deferredRenders; in every other state it calls the work item
\* and queues nothing.
C4_TypingDefersWithinIdleThreshold ==
  [][(rop'.op = "requestRender" /\ rop'.priority \in NormalOrLow) =>
       IF ar.isTyping /\ now - ar.lastInputTime < idleThresholdMs
       THEN Deferred(ar, ar', rop')
       ELSE /\ rop'.ran = <<rop'.id>>
            /\ ar'.renderQueue = ar.renderQueue
            /\ ar'.metrics.deferredRenders = ar.metrics.deferredRenders]_vars

\* a normal request deferred while typing, behind an entry queued earlier
C4_Witness ==
  /\ rop.op = "requestRender"
  /\ rop.priority = "normal"
  /\ rop.ran = <<>>
  /\ ar.isTyping
  /\ now > ar.lastInputTime
  /\ Len(ar.renderQueue) = 2
  /\ ar.renderQueue[2].renderFn = rop.id
  /\ ar.renderQueue[1].queuedAt < ar.renderQueue[2].queuedAt

\* C5 as stated: a flush of a non-empty queue calls every queued work item
\* once, in priority order, then queuedAt order, then queue order, and
\* leaves the queue empty when it returns normally.
C5_FlushOrder ==
  (IsFlushDeferred /\ rop.queue # <<>>) =>
    /\ Len(rop.ran) = Len(rop.queue)
    /\ InFlushOrder(rop.queue, rop.ran)
    /\ ~rop.threw => ar.renderQueue = <<>>

\* C5 amended: a flush of a non-empty queue calls the queued work items in
\* priority order, then queuedAt order, then queue order, each once, up to
\* and including the first that raises; when none raises it has called every
\* one and the queue is empty when it returns.
C5_FlushOrderUntilError ==
  (IsFlushDeferred /\ rop.queue # <<>>) =>
    /\ InFlushOrder(rop.queue, rop.ran)
    /\ rop.ran # <<>>
    /\ ~rop.threw => /\ Len(rop.ran) = Len(rop.queue)
                     /\ ar.renderQueue = <<>>

\* the queue [low, high, normal] flushed as high, normal, low
C5_Witness ==
  /\ IsFlushDeferred
  /\ ~rop.threw
  /\ Len(rop.queue) = 3
  /\ rop.queue[1].priority = "low"
  /\ rop.queue[2].priority = "high"
  /\ rop.queue[3].priority = "normal"
  /\ rop.ran = <<rop.queue[2].renderFn, rop.queue[3].renderFn,
                 rop.queue[1].renderFn>>
  /\ ar.renderQueue = <<>>

\* C6: with no flushDeferred() call from outside, a work item queued at time
\* t has been called by t + maxDeferMs: no entry of the queue that was never
\* called is older than maxDeferMs.
C6_BoundedStaleness ==
  \A i \in DOMAIN ar.renderQueue:
    invocations[ar.renderQueue[i].renderFn] = 0
       => now <= ar.renderQueue[i].queuedAt + maxDeferMs

\* ============================================ InputBuffer, continued
\* C11: after a flush() made while totalInputs is 0, avgProcessingTime is 0,
\* whatever time the flush took; after a flush() made while totalInputs is
\* above 0 it is the finite number totalProcessingTime / totalInputs.
C11_AvgProcessingTime ==
  IsFlush =>
    LET m == ib.metrics
        avg == m.avgProcessingTime
    IN IF m.totalInputs = 0
       THEN avg = <<0, 1>>
       ELSE /\ avg[2] # 0
            /\ avg[1] * m.totalInputs = m.totalProcessingTime * avg[2]

\* C12: every unit in the queue has queuedAt >= receivedAt, whether it was
\* entered by push with the default timestamp, by push with a timestamp the
\* caller supplied or by pushBatch, and the avgQueueTime a flush() returns is
\* never negative.
C12_QueuedAfterReceived ==
  /\ \A i \in DOMAIN ib.buffer: ib.buffer[i].queuedAt >= ib.buffer[i].receivedAt
  /\ IsFlush => bop.result.avgQueueTime[1] >= 0

\* ============================================ AdaptiveRenderer, continued
\* C18: after the flush made by the idle timer no max-defer timer is pending,
\* and after the flush made by the max-defer timer no idle timer is pending.
C18_CrossCancel ==
  /\ rop.op = "typingTimer" => ar.pendingDeferred = <<>>
  /\ rop.op = "deferredTimer" => ar.pendingTyping = <<>>


\* C19: onInput() puts the renderer in the typing region (isTyping) at once
\* and leaves one idle timer pending, due idleThresholdMs later; the region
\* goes from typing to idle only in the idle timer's callback, run when
\* idleThresholdMs has passed since the latest onInput(); it goes from idle
\* to typing only in onInput(); and requestRender, deferRender,
\* flushDeferred and the max-defer timer's callback, raising or not, leave
\* the region as it is.
C19_Regions ==
  [][/\ rop'.op = "onInput" =>
          /\ ar'.isTyping
          /\ ar'.lastInputTime = now
          /\ ar'.pendingTyping = <<now + idleThresholdMs>>
     /\ (ar.isTyping /\ ~ar'.isTyping) =>
          /\ rop'.op = "typingTimer"
          /\ now >= ar.lastInputTime + idleThresholdMs
     /\ (~ar.isTyping /\ ar'.isTyping) => rop'.op = "onInput"
     /\ rop'.op \in {"requestRender", "deferRender", "flushDeferred",
                     "deferredTimer"} => ar'.isTyping = ar.isTyping]_vars

\* the idle timer's callback ending the typing region idleThresholdMs after
\* the second of two onInput() calls, a render deferred between them
C19_Witness ==
  /\ rop.op = "typingTimer"
  /\ ~ar.isTyping
  /\ rop.queue # <<>>
  /\ rop.queue[1].queuedAt < ar.lastInputTime
  /\ ar.lastRenderTime >= ar.lastInputTime + idleThresholdMs


\* C20: a work item called by requestRender through executeRender, whether
\* it returns or raises, adds one to totalRenders and to immediateRenders,
\* makes maxRenderTime the larger of its old value and the call's duration
\* and avgRenderTime the mean with that duration counted in, and sets
\* lastRenderTime; an error it raises is reported to the caller.  A flush
\* pass counts every work item it called, the one that raised included.
C20_MetricsOnEveryExit ==
  [][LET m == ar.metrics
         m2 == ar'.metrics
         dur == now' - now
         n == m.totalRenders + 1
     IN /\ (rop'.op = "requestRender" /\ rop'.ran # <<>>) =>
             /\ m2.totalRenders = n
             /\ m2.immediateRenders = m.immediateRenders + 1
             /\ m2.maxRenderTime = Max(m.maxRenderTime, dur)
             /\ m2.avgRenderTime[2] # 0
             /\ m2.avgRenderTime[1] * (m.avgRenderTime[2] * n)
                  = (m.avgRenderTime[1] * (n - 1) + dur * m.avgRenderTime[2])
                      * m2.avgRenderTime[2]
             /\ ar'.lastRenderTime = now'
             /\ rop'.threw <=> throws' = throws + 1
        /\ rop'.op \in {"flushDeferred", "typingTimer", "deferredTimer"} =>
             /\ m2.totalRenders = m.totalRenders + Len(rop'.ran)
             /\ m2.immediateRenders = m.immediateRenders + Len(rop'.ran)
             /\ rop'.threw <=> throws' = throws + 1]_vars

\* a work item that took time and raised, called at once by requestRender
\* after another that took no time: both counted, the error reported
C20_Witness ==
  /\ rop.op = "requestRender"
  /\ rop.threw
  /\ rop.ran = <<rop.id>>
  /\ ar.metrics.totalRenders = 2
  /\ ar.metrics.immediateRenders = 2
  /\ ar.metrics.maxRenderTime = 1
  /\ ar.metrics.avgRenderTime = <<1, 2>>
  /\ ar.lastRenderTime = now


\* ========================================================== input worker
\* C13: the units in the input buffer's queue, followed by the units of the
\* batch messages in flight, followed by the units of the pending batch, are
\* the units read from stdin in the order read; the batch messages posted so
\* far hold every unit read and not pending exactly once, in read order; and
\* the batches received are the batches posted, in the order posted.
C13_EndToEndOrder ==
  /\ flushedAll \o peek(ib) \o MsgChars(channel) \o BatchChars(cw.inputBuffer)
       = captured
  /\ postedAll \o BatchChars(cw.inputBuffer) = captured
  /\ pushedAll \o MsgChars(channel) = postedAll

\* two batches received one after the other and a third in flight, each of
\* one unit of its own chunk
C13_Witness ==
  /\ Len(ib.buffer) = 2
  /\ ib.buffer[1].queuedAt < ib.buffer[2].queuedAt
  /\ ib.buffer[1].receivedAt < ib.buffer[2].receivedAt
  /\ Len(channel) = 1
  /\ channel[1].type = "input_batch"
  /\ Len(captured) = 3

\* C14: every unit of the pending batch of a running worker is about to be
\* posted by the flush timer: a flush timer is pending and is due no later
\* than one coalescing delay after the unit was read, whatever chunks, empty
\* ones included, stdin delivered.
C14_CaptureLiveness ==
  cw.state = "running" =>
    \A i \in DOMAIN cw.inputBuffer:
      \E j \in DOMAIN cw.pending:
        cw.pending[j] <= cw.inputBuffer[i].timestamp + coalesceMs

\* C16: the shutdown handler of a running worker posts the units pending in
\* the batch, all of them and in order, as one batch message, and posts
\* nothing when none is pending; then the thread has exited with every unit
\* read posted exactly once, and an exited worker posts nothing more.
C16_ShutdownFlush ==
  [][/\ (cw.state = "running" /\ cop'.op = "shutdown") =>
          /\ cw'.state = "exited"
          /\ cw'.inputBuffer = <<>>
          /\ IF cw.inputBuffer # <<>>
             THEN /\ Len(cop'.posted) = 1
                  /\ cop'.posted[1].type = "input_batch"
                  /\ cop'.posted[1].inputs = cw.inputBuffer
                  /\ channel' = Append(channel, cop'.posted[1])
             ELSE /\ cop'.posted = <<>>
                  /\ channel' = channel
          /\ postedAll' = captured'
     /\ cw.state = "exited" => (cw' = cw /\ postedAll' = postedAll)]_vars

\* a shutdown that found units of two chunks pending, read at different
\* times, the flush timer not yet run
C16_Witness ==
  /\ cop.op = "shutdown"
  /\ cw.state = "exited"
  /\ Len(cop.posted) = 1
  /\ Len(cop.posted[1].inputs) = 2
  /\ cop.posted[1].inputs[1].timestamp < cop.posted[1].inputs[2].timestamp
  /\ cop.posted[1].inputs[2].timestamp <= cop.posted[1].inputs[1].timestamp + coalesceMs
  /\ postedAll = captured


\* C17: when stdin fails or ends while units are pending in the batch, the
\* worker posts them as one batch message and then stops running, with no
\* unit left pending.
C17_FinalFlush ==
  [][(/\ cop'.op \in {"stdinError", "stdinEnd"}
      /\ cw.stdin = "open"
      /\ cw.inputBuffer # <<>>) =>
        /\ Len(cop'.posted) = 1
        /\ cop'.posted[1].inputs = cw.inputBuffer
        /\ cw'.inputBuffer = <<>>
        /\ cw'.state # "running"]_vars


\* ============================================================== pipeline
\* C15: in every state each kind of timer has at most one pending instance:
\* the worker's flush timer, the input buffer's typing-mode timer, the
\* renderer's idle timer and the renderer's max-defer timer.
C15_OneTimerPerPurpose ==
  /\ Len(cw.pending) <= 1
  /\ Len(ib.pending) <= 1
  /\ Len(ar.pendingTyping) <= 1
  /\ Len(ar.pendingDeferred) <= 1

\* all four timers pending at once, each after an arming made while an
\* instance was pending: the 'data' handler has just run with a unit read
\* earlier still pending, and two batches were pushed, announced to the
\* renderer and their renders deferred less than a timer delay apart
C15_Witness ==
  /\ Len(cw.pending) = 1
  /\ Len(ib.pending) = 1
  /\ Len(ar.pendingTyping) = 1
  /\ Len(ar.pendingDeferred) = 1
  /\ cop.op = "data"
  /\ cw.inputBuffer # <<>>
  /\ cw.inputBuffer[1].timestamp < now
  /\ Len(ar.renderQueue) = 2
  /\ ar.renderQueue[2].queuedAt > ar.renderQueue[1].queuedAt
  /\ ar.renderQueue[2].queuedAt < ar.renderQueue[1].queuedAt + typingModeDelayMs
  /\ ar.renderQueue[2].queuedAt < ar.renderQueue[1].queuedAt + idleThresholdMs
  /\ ib.lastInputTime = ar.renderQueue[2].queuedAt

\* ============================================= AdaptiveRenderer, errors
\* C21: when a work item raises during a flush of the deferred queue, the
\* pass has called the entries up to and including that one, in flush order,
\* and none after it; the error is raised to the caller; and every entry of
\* the queue the pass found has been called by it or is still in the queue.
C21_MidFlushError ==
  [][(rop'.op \in {"flushDeferred", "typingTimer", "deferredTimer"}
        /\ rop'.threw) =>
       /\ rop'.ran # <<>>
       /\ InFlushOrder(rop'.queue, rop'.ran)
       /\ invocations' = Bump(invocations, rop'.ran)
       /\ throws' = throws + 1
       /\ \A id \in QueueIds(rop'.queue):
            \/ \E i \in DOMAIN rop'.ran: rop'.ran[i] = id
            \/ id \in QueueIds(ar'.renderQueue)]_vars

\* a pass over three entries whose second raised: the third was not called
\* and is still queued
C21_Witness ==
  /\ IsFlushDeferred
  /\ rop.threw
  /\ Len(rop.queue) = 3
  /\ Len(rop.ran) = 2
  /\ \E i \in DOMAIN ar.renderQueue:
       /\ ar.renderQueue[i].renderFn \notin {rop.ran[1], rop.ran[2]}
       /\ invocations[ar.renderQueue[i].renderFn] = 0

\* C22: after every operation and timer callback, returned or raised, a
\* non-empty deferred queue has a max-defer timer pending that will flush it.
C22_NoStrandedWork ==
  ar.renderQueue # <<>> => ar.pendingDeferred # <<>>

\* ============================================== InputBuffer, accounting
\* C23: on a buffer whose metrics were never reset, totalInputs is the
\* number of units the flush() calls have returned so far (the sum of their
\* count) plus size(); a push adds to totalInputs the number of units it
\* queued, and flush and peek leave it alone.
C23_InputAccounting ==
  /\ [](ib.metrics.totalInputs = Len(flushedAll) + Len(ib.buffer))
  /\ [][/\ bop'.op \in {"push", "pushBatch"} =>
             ib'.metrics.totalInputs - ib.metrics.totalInputs
               = Len(ib'.buffer) - Len(ib.buffer)
        /\ bop'.op \in {"flush", "peek"} =>
             ib'.metrics.totalInputs = ib.metrics.totalInputs]_vars

\* C24: a delay event denotes input that waited: a flush() that counts a
\* delay event or calls onDelayDetected finds in the queue at least one unit
\* that was pushed more than delayThresholdMs before the flush.
C24_DelayMeansWaited ==
  [][(/\ bop'.op = "flush"
      /\ \/ bop'.callbacks # <<>>
         \/ ib'.metrics.delayEvents > ib.metrics.delayEvents) =>
       \E i \in DOMAIN ib.buffer:
         now - ib.buffer[i].queuedAt > delayThresholdMs]_vars

\* ============================================ AdaptiveRenderer, ordering
\* C25: requestRender with priority normal or low calls its work item at
\* once only when the deferred queue is empty, so that a normal or low work
\* item is never called before one that was deferred earlier and is still
\* queued.
C25_NoOvertaking ==
  [][(/\ rop'.op = "requestRender"
      /\ rop'.priority \in NormalOrLow
      /\ rop'.ran # <<>>) =>
       ar.renderQueue = <<>>]_vars

\* ============================================ AdaptiveRenderer, counters
\* the calls of work items made so far
TotalInvocations ==
  LET RECURSIVE S(_)
      S(id) == IF id = 0 THEN 0 ELSE invocations[id] + S(id - 1)
  IN S(MaxItems)

\* C26: immediateRenders equals totalRenders in every state, both being the
\* number of calls of work items made so far, the calls made by
\* flushDeferred for deferred entries included; deferredRenders grows by one
\* with every entry put in the queue, changes in no other step and never
\* decreases.
C26_RenderCounters ==
  /\ [](/\ ar.metrics.immediateRenders = ar.metrics.totalRenders
        /\ ar.metrics.totalRenders = TotalInvocations
        /\ Len(ar.renderQueue) <= ar.metrics.deferredRenders)
  /\ [][LET enqueued == /\ rop'.op \in {"requestRender", "deferRender"}
                        /\ rop'.ran = <<>>
        IN /\ ar'.metrics.deferredRenders >= ar.metrics.deferredRenders
           /\ enqueued => Deferred(ar, ar', rop')
           /\ ~enqueued =>
                /\ ar'.metrics.deferredRenders = ar.metrics.deferredRenders
                /\ Len(ar'.renderQueue) <= Len(ar.renderQueue)]_vars

\* one work item called at once and one deferred and then called by a
\* flush: both counters are 2 and deferredRenders stays 1
C26_Witness ==
  /\ rop.op \in {"flushDeferred", "typingTimer", "deferredTimer"}
  /\ Len(rop.ran) = 1
  /\ ar.metrics.deferredRenders = 1
  /\ ar.metrics.totalRenders = 2
  /\ ar.metrics.immediateRenders = 2
  /\ ar.renderQueue = <<>>

====
